---- MODULE Spec2Model ----
(***************************************************************************)
(* Configuration resolution of dmarc-viewer (internal/config/config.go):   *)
(* Load, LoadWithFlags, setDefaults and validate, together with the        *)
(* behaviour of the viper / pflag / mapstructure calls they make.          *)
(***************************************************************************)
EXTENDS Integers, Sequences, FiniteSets, TLC

VARIABLES
    fs,         \* the file system: path -> [status, decl, val]
    env,        \* the process environment: variable name -> [set, val]
    argv,       \* the command line: flag name -> [given, raw]
    cmdLine,    \* pflag.CommandLine: the process-wide set of defined flags
    entry,      \* per call: which function the caller invokes
    arg,        \* per call: Load's configFile argument
    pc,         \* per call: position inside the function
    v,          \* per call: the local viper instance
    flags,      \* per call: the parsed flag variables [changed, val]
    cfg,        \* per call: the local `var cfg Config`
    ret,        \* per call: the returned (*Config, error) pair
    out,        \* per call: what the process wrote and its exit status
    history     \* per call: the paths the caller's earlier calls were given

vars == <<fs, env, argv, cmdLine, entry, arg, pc, v, flags, cfg, ret, out, history>>

(***************************************************************************)
(* Bounds                                                                  *)
(***************************************************************************)
\* how many keys get their layers varied away from the base scenario
MaxVaried == 1
\* how many bytes the passwords handed to maskPassword have at most
MaxPassword == 4

(***************************************************************************)
(* Untyped values, as viper holds them (any): one record shape for all     *)
(***************************************************************************)
Nil == [t |-> "nil", s |-> "", i |-> 0, b |-> FALSE]
Str(x) == [t |-> "string", s |-> x, i |-> 0, b |-> FALSE]
Num(x) == [t |-> "int", s |-> "", i |-> x, b |-> FALSE]
Bool(x) == [t |-> "bool", s |-> "", i |-> 0, b |-> x]

(***************************************************************************)
(* The Config struct: one leaf per dotted key                              *)
(***************************************************************************)
Keys == {"imap.host", "imap.port", "imap.username", "imap.password",
         "imap.folder", "imap.use_tls", "database.path", "web.host",
         "web.port", "sync.interval", "sync.on_startup", "logging.level",
         "logging.format"}

\* per leaf: the dotted key's segments, the Go field name and its type
Config ==
    [k \in Keys |->
      CASE k = "imap.host" -> [segs |-> <<"imap", "host">>, struct |-> "IMAP", field |-> "Host", kind |-> "string"]
        [] k = "imap.port" -> [segs |-> <<"imap", "port">>, struct |-> "IMAP", field |-> "Port", kind |-> "int"]
        [] k = "imap.username" -> [segs |-> <<"imap", "username">>, struct |-> "IMAP", field |-> "Username", kind |-> "string"]
        [] k = "imap.password" -> [segs |-> <<"imap", "password">>, struct |-> "IMAP", field |-> "Password", kind |-> "string"]
        [] k = "imap.folder" -> [segs |-> <<"imap", "folder">>, struct |-> "IMAP", field |-> "Folder", kind |-> "string"]
        [] k = "imap.use_tls" -> [segs |-> <<"imap", "use_tls">>, struct |-> "IMAP", field |-> "UseTLS", kind |-> "bool"]
        [] k = "database.path" -> [segs |-> <<"database", "path">>, struct |-> "Database", field |-> "Path", kind |-> "string"]
        [] k = "web.host" -> [segs |-> <<"web", "host">>, struct |-> "Web", field |-> "Host", kind |-> "string"]
        [] k = "web.port" -> [segs |-> <<"web", "port">>, struct |-> "Web", field |-> "Port", kind |-> "int"]
        [] k = "sync.interval" -> [segs |-> <<"sync", "interval">>, struct |-> "Sync", field |-> "Interval", kind |-> "string"]
        [] k = "sync.on_startup" -> [segs |-> <<"sync", "on_startup">>, struct |-> "Sync", field |-> "OnStartup", kind |-> "bool"]
        [] k = "logging.level" -> [segs |-> <<"logging", "level">>, struct |-> "Logging", field |-> "Level", kind |-> "string"]
        [] k = "logging.format" -> [segs |-> <<"logging", "format">>, struct |-> "Logging", field |-> "Format", kind |-> "string"]]

\* keys a document or a variable may name although Config has no field for them:
\* an extra leaf of a known section, and a leaf of a section Config does not have
UnknownKeys == {"imap.timeout", "cache.dir"}
AnyKeys == Keys \cup UnknownKeys

\* strings.Split(key, ".")
Segs(k) ==
    CASE k = "imap.timeout" -> <<"imap", "timeout">>
      [] k = "cache.dir" -> <<"cache", "dir">>
      [] OTHER -> Config[k].segs

Sections == {Segs(k)[1] : k \in AnyKeys}
Section(k) == Segs(k)[1]
Leaf(k) == Segs(k)[2]
Kind(k) == Config[k].kind

\* the zero value Go gives a field of `var cfg Config`
ZeroValue(k) ==
    CASE Kind(k) = "string" -> Str("")
      [] Kind(k) = "int" -> Num(0)
      [] Kind(k) = "bool" -> Bool(FALSE)

ZeroConfig == [k \in Keys |-> ZeroValue(k)]

(***************************************************************************)
(* Case mapping of the identifiers the code compares                       *)
(***************************************************************************)
ToUpper(s) ==
    CASE s = "DMARC" -> "DMARC"
      [] s = "imap" -> "IMAP"
      [] s = "database" -> "DATABASE"
      [] s = "web" -> "WEB"
      [] s = "sync" -> "SYNC"
      [] s = "logging" -> "LOGGING"
      [] s = "host" -> "HOST"
      [] s = "port" -> "PORT"
      [] s = "username" -> "USERNAME"
      [] s = "password" -> "PASSWORD"
      [] s = "folder" -> "FOLDER"
      [] s = "use_tls" -> "USE_TLS"
      [] s = "path" -> "PATH"
      [] s = "interval" -> "INTERVAL"
      [] s = "on_startup" -> "ON_STARTUP"
      [] s = "level" -> "LEVEL"
      [] s = "format" -> "FORMAT"
      [] s = "timeout" -> "TIMEOUT"
      [] s = "cache" -> "CACHE"
      [] s = "dir" -> "DIR"

ToLower(s) ==
    CASE s = "Host" -> "host"
      [] s = "Port" -> "port"
      [] s = "Username" -> "username"
      [] s = "Password" -> "password"
      [] s = "Folder" -> "folder"
      [] s = "UseTLS" -> "usetls"
      [] s = "Path" -> "path"
      [] s = "Interval" -> "interval"
      [] s = "OnStartup" -> "onstartup"
      [] s = "Level" -> "level"
      [] s = "Format" -> "format"
      [] s = "IMAP" -> "imap"
      [] s = "Database" -> "database"
      [] s = "Web" -> "web"
      [] s = "Sync" -> "sync"
      [] s = "Logging" -> "logging"
      [] OTHER -> s

\* strings.EqualFold
EqualFold(a, b) == ToLower(a) = ToLower(b)

(***************************************************************************)
(* strconv, as pflag and mapstructure call it, on the strings that occur   *)
(***************************************************************************)
\* strconv.ParseInt(s, 0, 64)
ParseInt(s) ==
    CASE s = "0" -> [ok |-> TRUE, n |-> 0]
      [] s = "993" -> [ok |-> TRUE, n |-> 993]
      [] s = "2143" -> [ok |-> TRUE, n |-> 2143]
      [] s = "3143" -> [ok |-> TRUE, n |-> 3143]
      [] OTHER -> [ok |-> FALSE, n |-> 0]

\* strconv.ParseBool
ParseBool(s) ==
    CASE s \in {"1", "t", "T", "TRUE", "true", "True"} -> [ok |-> TRUE, b |-> TRUE]
      [] s \in {"0", "f", "F", "FALSE", "false", "False"} -> [ok |-> TRUE, b |-> FALSE]
      [] OTHER -> [ok |-> FALSE, b |-> FALSE]

(***************************************************************************)
(* mapstructure, as viper.Unmarshal configures it (WeaklyTypedInput)       *)
(***************************************************************************)
\* decode one untyped value into a field of the given kind
Decode(kind, x) ==
    CASE kind = "string" ->
           (CASE x.t = "string" -> [ok |-> TRUE, val |-> x]
              [] x.t = "bool" -> [ok |-> TRUE, val |-> Str(IF x.b THEN "1" ELSE "0")]
              [] x.t = "int" -> [ok |-> TRUE, val |-> Str(ToString(x.i))]
              [] OTHER -> [ok |-> TRUE, val |-> Str("")])
      [] kind = "int" ->
           (CASE x.t = "int" -> [ok |-> TRUE, val |-> x]
              [] x.t = "bool" -> [ok |-> TRUE, val |-> Num(IF x.b THEN 1 ELSE 0)]
              [] x.t = "string" ->
                   LET p == ParseInt(IF x.s = "" THEN "0" ELSE x.s)
                   IN  [ok |-> p.ok, val |-> Num(p.n)]
              [] OTHER -> [ok |-> TRUE, val |-> Num(0)])
      [] kind = "bool" ->
           (CASE x.t = "bool" -> [ok |-> TRUE, val |-> x]
              [] x.t = "int" -> [ok |-> TRUE, val |-> Bool(x.i # 0)]
              [] x.t = "string" ->
                   LET p == ParseBool(x.s)
                   IN  IF p.ok THEN [ok |-> TRUE, val |-> Bool(p.b)]
                       ELSE IF x.s = "" THEN [ok |-> TRUE, val |-> Bool(FALSE)]
                       ELSE [ok |-> FALSE, val |-> Bool(FALSE)]
              [] OTHER -> [ok |-> TRUE, val |-> Bool(FALSE)])

(***************************************************************************)
(* viper                                                                   *)
(***************************************************************************)
NoValues == [k \in AnyKeys |-> Nil]

\* viper.New()
New == [defaults |-> NoValues, config |-> NoValues, override |-> NoValues,
        automaticEnv |-> FALSE, envPrefix |-> "", configFile |-> ""]

\* setDefaults: the ten v.SetDefault calls
setDefaults(vp) ==
    [vp EXCEPT !.defaults =
        [k \in AnyKeys |->
          CASE k = "imap.port" -> Num(993)
            [] k = "imap.folder" -> Str("INBOX")
            [] k = "imap.use_tls" -> Bool(TRUE)
            [] k = "database.path" -> Str("./dmarc-reports.db")
            [] k = "web.host" -> Str("localhost")
            [] k = "web.port" -> Num(8080)
            [] k = "sync.interval" -> Str("15m")
            [] k = "sync.on_startup" -> Bool(TRUE)
            [] k = "logging.level" -> Str("info")
            [] k = "logging.format" -> Str("text")
            [] OTHER -> vp.defaults[k]]]

\* the environment variable AutomaticEnv consults for a key:
\* ToUpper(prefix + "_" + key) with the key replacer "." -> "_" applied
EnvKey == [k \in AnyKeys |-> ToUpper(Segs(k)[1]) \o "_" \o ToUpper(Segs(k)[2])]

EnvVarName(prefix, k) == ToUpper(prefix) \o "_" \o EnvKey[k]

\* the variable viper consults for the parent path of a nested key
ParentKey == [k \in AnyKeys |-> ToUpper(Segs(k)[1])]

ParentVarName(prefix, k) == ToUpper(prefix) \o "_" \o ParentKey[k]

EnvNames == {EnvVarName("DMARC", k) : k \in Keys}

\* the DMARC_ variables that name no key of Config: the variable DESIGN.md documents
\* for the log level, those of the unknown keys, and those named after a section
StrangerNames ==
    {"DMARC_LOG_LEVEL"} \cup {EnvVarName("DMARC", k) : k \in UnknownKeys}
        \cup {ParentVarName("DMARC", k) : k \in AnyKeys}

Environ == EnvNames \cup StrangerNames

Unset == [set |-> FALSE, val |-> ""]
SetTo(s) == [set |-> TRUE, val |-> s]

\* viper's getEnv: os.LookupEnv, and an empty value counts as not set
getEnv(environ, name) ==
    [val |-> environ[name].val, ok |-> environ[name].set /\ environ[name].val # ""]

\* variant: a declared section yields zero values for the leaves it omits,
\* as unmarshalling the document into the Config struct would
FileGetZeroed(doc, k) ==
    IF doc.val[k] = Nil /\ Section(k) \in doc.decl THEN ZeroValue(k) ELSE doc.val[k]

\* the value a YAML document holds for a key (Nil when the leaf is absent)
FileGet(doc, k) == doc.val[k]

\* viper's isPathShadowedInAutoEnv: the variable of the key's parent path is set
isPathShadowedInAutoEnv(vp, environ, k) ==
    getEnv(environ, ParentVarName(vp.envPrefix, k)).ok

\* viper's find: override, then environment, then config file, then defaults;
\* under AutomaticEnv a key whose parent path has a variable resolves to nil
Get(vp, environ, k) ==
    IF vp.override[k] # Nil THEN vp.override[k]
    ELSE IF ~vp.automaticEnv
         THEN IF vp.config[k] # Nil THEN vp.config[k] ELSE vp.defaults[k]
    ELSE LET e == getEnv(environ, EnvVarName(vp.envPrefix, k))
         IN  IF e.ok THEN Str(e.val)
             ELSE IF isPathShadowedInAutoEnv(vp, environ, k) THEN Nil
             ELSE IF vp.config[k] # Nil THEN vp.config[k]
             ELSE vp.defaults[k]

\* viper's AllKeys: keys of override, config and defaults; AutomaticEnv adds none
AllKeys(vp) ==
    {k \in AnyKeys : vp.override[k] # Nil \/ vp.config[k] # Nil \/ vp.defaults[k] # Nil}

\* viper's AllSettings: the keys AllKeys lists whose value is not nil
AllSettings(vp, environ) ==
    LET all == [k \in AllKeys(vp) |-> Get(vp, environ, k)]
    IN  [k \in {j \in DOMAIN all : all[j] # Nil} |-> all[k]]

\* the settings entry mapstructure matches to a struct field: the struct has
\* yaml tags only, so the match is by field name, case-insensitively
FieldMatches ==
    [k \in Keys |-> {j \in AnyKeys : /\ EqualFold(Segs(j)[1], Config[k].struct)
                                     /\ EqualFold(Segs(j)[2], Config[k].field)}]

MatchName(settings, k) == FieldMatches[k] \cap DOMAIN settings

\* v.Unmarshal(&cfg): the Config it fills in, and whether decoding failed
Unmarshal(vp, environ) ==
    LET settings == AllSettings(vp, environ)
        field == [k \in Keys |->
                    LET m == MatchName(settings, k)
                    IN  IF m = {} THEN [ok |-> TRUE, val |-> ZeroValue(k)]
                        ELSE Decode(Kind(k), settings[CHOOSE j \in m : TRUE])]
    IN  [cfg |-> [k \in Keys |-> IF field[k].ok THEN field[k].val ELSE ZeroValue(k)],
         err |-> IF \A k \in Keys : field[k].ok THEN "" ELSE "decoding failed"]

(***************************************************************************)
(* validate                                                                *)
(***************************************************************************)
validLevels == {"debug", "info", "warn", "error"}
validFormats == {"json", "text"}

\* variant: the log level is checked before the database path
validateLevelFirst(c) ==
    IF c["imap.host"].s = "" THEN "imap.host is required"
    ELSE IF c["imap.username"].s = "" THEN "imap.username is required"
    ELSE IF c["imap.password"].s = "" THEN "imap.password is required"
    ELSE IF c["logging.level"].s \notin validLevels
         THEN "invalid log level: " \o c["logging.level"].s
                  \o " (must be debug, info, warn, or error)"
    ELSE IF c["database.path"].s = "" THEN "database.path is required"
    ELSE IF c["logging.format"].s \notin validFormats
         THEN "invalid log format: " \o c["logging.format"].s
                  \o " (must be json or text)"
    ELSE ""

\* variant: the ports are checked as well, after the required fields
validatePortsChecked(c) ==
    IF c["imap.host"].s = "" THEN "imap.host is required"
    ELSE IF c["imap.username"].s = "" THEN "imap.username is required"
    ELSE IF c["imap.password"].s = "" THEN "imap.password is required"
    ELSE IF c["database.path"].s = "" THEN "database.path is required"
    ELSE IF c["imap.port"].i <= 0 \/ c["web.port"].i <= 0 THEN "invalid port"
    ELSE IF c["logging.level"].s \notin validLevels
         THEN "invalid log level: " \o c["logging.level"].s
                  \o " (must be debug, info, warn, or error)"
    ELSE IF c["logging.format"].s \notin validFormats
         THEN "invalid log format: " \o c["logging.format"].s
                  \o " (must be json or text)"
    ELSE ""

\* validate(cfg): the error message, "" for nil
validate(c) ==
    IF c["imap.host"].s = "" THEN "imap.host is required"
    ELSE IF c["imap.username"].s = "" THEN "imap.username is required"
    ELSE IF c["imap.password"].s = "" THEN "imap.password is required"
    ELSE IF c["database.path"].s = "" THEN "database.path is required"
    ELSE IF c["logging.level"].s \notin validLevels
         THEN "invalid log level: " \o c["logging.level"].s
                  \o " (must be debug, info, warn, or error)"
    ELSE IF c["logging.format"].s \notin validFormats
         THEN "invalid log format: " \o c["logging.format"].s
                  \o " (must be json or text)"
    ELSE ""

(***************************************************************************)
(* pflag                                                                   *)
(***************************************************************************)
\* the flag LoadWithFlags declares for each key
FlagOf(k) ==
    CASE k = "imap.host" -> "imap-host"
      [] k = "imap.port" -> "imap-port"
      [] k = "imap.username" -> "imap-username"
      [] k = "imap.password" -> "imap-password"
      [] k = "imap.folder" -> "imap-folder"
      [] k = "imap.use_tls" -> "imap-use-tls"
      [] k = "database.path" -> "database"
      [] k = "web.host" -> "web-host"
      [] k = "web.port" -> "web-port"
      [] k = "sync.interval" -> "sync-interval"
      [] k = "sync.on_startup" -> "sync-on-startup"
      [] k = "logging.level" -> "log-level"
      [] k = "logging.format" -> "log-format"

FlagNames == {"config"} \cup {FlagOf(k) : k \in Keys}

\* what os.Args may name: the declared flags and one that is not declared
ArgNames == FlagNames \cup {"verbose"}

\* the type each flag is declared with (pflag.String / Int / Bool)
FlagKind(f) ==
    IF f \in {"imap-port", "web-port"} THEN "int"
    ELSE IF f \in {"imap-use-tls", "sync-on-startup"} THEN "bool"
    ELSE "string"

\* the default each flag is declared with
FlagDefault(f) ==
    CASE f = "config" -> Str("config.yaml")
      [] f = "imap-use-tls" -> Bool(TRUE)
      [] f = "sync-on-startup" -> Bool(FALSE)
      [] FlagKind(f) = "int" -> Num(0)
      [] OTHER -> Str("")

NotGiven == [given |-> FALSE, raw |-> ""]
Given(r) == [given |-> TRUE, raw |-> r]

\* a flag value's Set method on the raw argument
FlagSet(f, raw) ==
    CASE FlagKind(f) = "string" -> [ok |-> TRUE, val |-> Str(raw)]
      [] FlagKind(f) = "int" -> [ok |-> ParseInt(raw).ok, val |-> Num(ParseInt(raw).n)]
      [] FlagKind(f) = "bool" -> [ok |-> ParseBool(raw).ok, val |-> Bool(ParseBool(raw).b)]

\* variant: a flag that is not declared or whose value does not parse is skipped
ParseContinueOnError(args) ==
    [ok |-> TRUE,
     changed |-> [f \in FlagNames |-> args[f].given /\ FlagSet(f, args[f].raw).ok],
     val |-> [f \in FlagNames |->
                IF args[f].given /\ FlagSet(f, args[f].raw).ok
                THEN FlagSet(f, args[f].raw).val ELSE FlagDefault(f)]]

\* pflag.Parse over os.Args: the flag variables and their Changed marks
Parse(args) ==
    [ok |-> \A f \in ArgNames : args[f].given => (f \in FlagNames /\ FlagSet(f, args[f].raw).ok),
     changed |-> [f \in FlagNames |-> args[f].given],
     val |-> [f \in FlagNames |->
                IF args[f].given THEN FlagSet(f, args[f].raw).val ELSE FlagDefault(f)]]

NoFlags == [changed |-> [f \in FlagNames |-> FALSE],
            val |-> [f \in FlagNames |-> FlagDefault(f)]]

\* variant: every flag variable is written, whether or not it was supplied
OverrideUnconditional(vp, fl) ==
    [vp EXCEPT !.override = [k \in AnyKeys |-> IF k \in Keys THEN fl.val[FlagOf(k)] ELSE Nil]]

\* lines 125-164: v.Set(key, *flag) for every flag whose Changed is true
Override(vp, fl) ==
    [vp EXCEPT !.override =
        [k \in AnyKeys |-> IF k \in Keys /\ fl.changed[FlagOf(k)] THEN fl.val[FlagOf(k)]
                           ELSE vp.override[k]]]

(***************************************************************************)
(* The callers' inputs                                                     *)
(***************************************************************************)
Calls == {"c1", "c2"}
Paths == {"config.yaml", "other.yaml"}

FreeString(k) == Kind(k) = "string" /\ k \notin {"logging.level", "logging.format"}

\* values a YAML document may give a key: a well-formed one first
GoodFile(k) ==
    CASE k = "logging.level" -> Str("debug")
      [] k = "logging.format" -> Str("json")
      [] Kind(k) = "int" -> Num(1143)
      [] Kind(k) = "bool" -> Bool(TRUE)
      [] OTHER -> Str(k \o "@file")

OddFile(k) ==
    CASE k = "logging.level" -> Str("invalid_level")
      [] k = "logging.format" -> Str("invalid_format")
      [] k = "sync.interval" -> Str("soon")
      [] Kind(k) = "int" -> Str("notanumber")
      [] Kind(k) = "bool" -> Bool(FALSE)
      [] OTHER -> Str("")

FileVals(k) == {GoodFile(k), OddFile(k)}

\* values an environment variable may hold
EnvVals(k) ==
    CASE k = "logging.level" -> {"warn", "loud"}
      [] k = "logging.format" -> {"text", "xml"}
      [] Kind(k) = "int" -> {"2143", "notanumber"}
      [] Kind(k) = "bool" -> {"true", "false", "maybe"}
      [] OTHER -> {k \o "@env", ""}

\* raw values a flag may be given on the command line
ArgVals(k) ==
    CASE k = "logging.level" -> {"error", ""}
      [] k = "logging.format" -> {"json", ""}
      [] Kind(k) = "int" -> {"3143", "0", "abc"}
      [] Kind(k) = "bool" -> {"true", "false"}
      [] OTHER -> {k \o "@cli", ""}

Required == {"imap.host", "imap.username", "imap.password"}

\* YAML documents: every leaf set; every leaf and two unknown ones; only the
\* required leaves and logging; the host line of TestLoad_InvalidYAML; nothing
BaseVal(scen) ==
    [k \in AnyKeys |->
      CASE k \in UnknownKeys -> IF scen = "extra" THEN Str(k \o "@file") ELSE Nil
        [] scen \in {"full", "nopath", "fixed", "extra"} -> GoodFile(k)
        [] scen \in {"minimal", "lean"} /\ k \in Required -> GoodFile(k)
        [] scen \in {"minimal", "lean"} /\ k = "logging.level" -> Str("info")
        [] scen \in {"minimal", "lean"} /\ k = "logging.format" -> Str("text")
        [] scen = "invalid" /\ k = "imap.host" -> GoodFile(k)
        [] OTHER -> Nil]

DocScen == {"full", "minimal", "empty"}

\* what the caller finds at the path, which variables the base environment sets,
\* whether the command line names a flag that is not declared, and whether the
\* layers of single keys are varied around it
Scenarios ==
    {[file |-> "full", env |-> "none", argv |-> "none", vary |-> TRUE],
     [file |-> "minimal", env |-> "none", argv |-> "none", vary |-> TRUE],
     [file |-> "empty", env |-> "required", argv |-> "none", vary |-> TRUE],
     [file |-> "nopath", env |-> "none", argv |-> "none", vary |-> TRUE],
     [file |-> "nopath", env |-> "required", argv |-> "none", vary |-> TRUE],
     [file |-> "missing", env |-> "none", argv |-> "none", vary |-> TRUE],
     [file |-> "missing", env |-> "required", argv |-> "none", vary |-> FALSE],
     [file |-> "invalid", env |-> "none", argv |-> "none", vary |-> TRUE],
     [file |-> "invalid", env |-> "required", argv |-> "none", vary |-> FALSE],
     [file |-> "extra", env |-> "none", argv |-> "none", vary |-> FALSE],
     [file |-> "fixed", env |-> "stranger", argv |-> "none", vary |-> FALSE],
     [file |-> "fixed", env |-> "section", argv |-> "none", vary |-> FALSE],
     [file |-> "lean", env |-> "websection", argv |-> "none", vary |-> FALSE],
     [file |-> "fixed", env |-> "loglevel", argv |-> "none", vary |-> FALSE],
     [file |-> "fixed", env |-> "none", argv |-> "unknown", vary |-> FALSE]}

Options(k, e, scen) ==
    {[file |-> f, env |-> n, arg |-> a] :
        f \in IF scen \in DocScen THEN {Nil} \cup FileVals(k) ELSE {BaseVal(scen)[k]},
        n \in {Unset} \cup {SetTo(x) : x \in EnvVals(k)},
        a \in IF e = "LoadWithFlags" THEN {NotGiven} \cup {Given(r) : r \in ArgVals(k)}
              ELSE {NotGiven}}

\* the keys one run varies: up to MaxVaried leaves of one section (viper resolves and
\* decodes every leaf on its own; leaves share state only through their section's
\* declaration in the file, and validate's view of several sections is SpecValidate's)
Varied ==
    {K \in SUBSET Keys : /\ Cardinality(K) <= MaxVaried
                         /\ \A j, k \in K : Section(j) = Section(k)}

RECURSIVE Choices(_, _, _)
Choices(K, e, scen) ==
    IF K = {} THEN {<<>>}
    ELSE LET k == CHOOSE j \in K : TRUE
         IN  {(k :> x) @@ o : x \in Options(k, e, scen), o \in Choices(K \ {k}, e, scen)}

\* the file a scenario leaves at config.yaml, with the varied leaves applied
FileOf(scen, K, o) ==
    LET val == [k \in AnyKeys |-> IF k \in K THEN o[k].file ELSE BaseVal(scen)[k]]
    IN  [status |-> CASE scen = "missing" -> "missing"
                      [] scen = "invalid" -> "invalid"
                      [] OTHER -> "ok",
         decl |-> {Section(k) : k \in {j \in AnyKeys : BaseVal(scen)[j] # Nil \/ val[j] # Nil}},
         val |-> val]

NoFile == [status |-> "missing", decl |-> {}, val |-> NoValues]

\* the variables naming no key of Config that a base environment sets
StrangerOf(base, n) ==
    CASE base = "loglevel" /\ n = "DMARC_LOG_LEVEL" -> SetTo("error")
      [] base = "section" /\ n = "DMARC_DATABASE" -> SetTo("./reports.db")
      [] base = "websection" /\ n = "DMARC_WEB" -> SetTo("8081")
      [] base = "stranger" /\ n \in {"DMARC_IMAP_TIMEOUT", "DMARC_CACHE_DIR", "DMARC_CACHE"} -> SetTo("30")
      [] OTHER -> Unset

EnvOf(base, K, o) ==
    [n \in Environ |->
        IF n \in EnvNames
        THEN LET k == CHOOSE j \in Keys : EnvVarName("DMARC", j) = n
             IN  IF k \in K THEN o[k].env
                 ELSE IF base = "required" /\ k \in Required
                      THEN SetTo(CHOOSE x \in EnvVals(k) : x # "")
                 ELSE Unset
        ELSE StrangerOf(base, n)]

ArgvOf(e, scen, K, o) ==
    [f \in ArgNames |->
        IF f = "config"
        THEN IF e = "LoadWithFlags" /\ scen.file = "nopath" THEN Given("") ELSE NotGiven
        ELSE IF f \notin FlagNames
        THEN IF e = "LoadWithFlags" /\ scen.argv = "unknown" THEN Given("") ELSE NotGiven
        ELSE LET k == CHOOSE j \in Keys : FlagOf(j) = f
             IN  IF k \in K THEN o[k].arg ELSE NotGiven]

NoReturn == [cfg |-> <<>>, err |-> ""]

\* a process that has written nothing and has not exited
Running == [stdout |-> <<>>, stderr |-> <<>>, status |-> -1]

InitOf(entries) ==
    \E e \in entries, scen \in Scenarios, K \in Varied :
      /\ scen.vary \/ K = {}
      /\ \E o \in Choices(K, e, scen.file) :
        /\ e = "Load" => scen.argv = "none"
        /\ fs = [p \in Paths |-> IF p = "config.yaml" THEN FileOf(scen.file, K, o) ELSE NoFile]
        /\ env = EnvOf(scen.env, K, o)
        /\ argv = ArgvOf(e, scen, K, o)
        /\ cmdLine = {}
        /\ entry = [c \in Calls |-> IF c = "c1" THEN e ELSE "none"]
        /\ arg = [c \in Calls |-> IF c = "c1" /\ e = "Load" /\ scen.file # "nopath"
                                   THEN "config.yaml" ELSE ""]
        /\ pc = [c \in Calls |-> IF c = "c1" THEN "call" ELSE "idle"]
        /\ v = [c \in Calls |-> New]
        /\ flags = [c \in Calls |-> NoFlags]
        /\ cfg = [c \in Calls |-> ZeroConfig]
        /\ ret = [c \in Calls |-> NoReturn]
        /\ out = [c \in Calls |-> Running]
        /\ history = [c \in Calls |-> {}]

Init == InitOf({"Load", "LoadWithFlags"})

(***************************************************************************)
(* viper.ReadInConfig on the file set by SetConfigFile                     *)
(***************************************************************************)
\* variant: only a file that cannot be opened is an error; a document that does
\* not parse is read for the leaves it has
ReadErrOnlyMissing(file) ==
    IF file.status = "missing" THEN "open: no such file or directory" ELSE ""

\* the error ReadInConfig returns, "" for nil
ReadErr(file) ==
    CASE file.status = "missing" -> "open: no such file or directory"
      [] file.status = "invalid" -> "While parsing config: yaml"
      [] OTHER -> ""

\* the viper instance after ReadInConfig: v.config is replaced only on success
ReadInConfig(vp, file) ==
    IF ReadErr(file) = "" THEN [vp EXCEPT !.config = [k \in AnyKeys |-> FileGet(file, k)]]
    ELSE vp

\* SetEnvPrefix("DMARC"), SetEnvKeyReplacer(".", "_"), AutomaticEnv()
AutomaticEnv(vp) == [vp EXCEPT !.envPrefix = "DMARC", !.automaticEnv = TRUE]

Return(c, r) ==
    /\ ret' = [ret EXCEPT ![c] = r]
    /\ pc' = [pc EXCEPT ![c] = "done"]

Goto(c, l) == pc' = [pc EXCEPT ![c] = l]

(***************************************************************************)
(* Load(configFile)                                                        *)
(***************************************************************************)
\* variant: the viper instance is a package-level one that every call reuses
Load_setDefaultsShared(c) ==
    /\ entry[c] = "Load" /\ pc[c] = "call"
    /\ v' = [v EXCEPT ![c] = setDefaults(v[c])]
    /\ Goto(c, "read")
    /\ UNCHANGED <<history, out, fs, env, argv, cmdLine, entry, arg, flags, cfg, ret>>

\* lines 56-59
Load_setDefaults(c) ==
    /\ entry[c] = "Load" /\ pc[c] = "call"
    /\ v' = [v EXCEPT ![c] = setDefaults(New)]
    /\ Goto(c, "read")
    /\ UNCHANGED <<history, out, fs, env, argv, cmdLine, entry, arg, flags, cfg, ret>>

\* variant: the file is read into one package-level viper instance, which every
\* call in flight uses
Load_ReadInConfigShared(c) ==
    /\ entry[c] = "Load" /\ pc[c] = "read"
    /\ IF arg[c] # ""
       THEN /\ v' = [d \in Calls |->
                       ReadInConfig([v[c] EXCEPT !.configFile = arg[c]], fs[arg[c]])]
            /\ IF ReadErr(fs[arg[c]]) # ""
               THEN Return(c, [cfg |-> <<>>,
                               err |-> "failed to read config file: " \o ReadErr(fs[arg[c]])])
               ELSE Goto(c, "env") /\ UNCHANGED ret
       ELSE Goto(c, "env") /\ UNCHANGED <<v, ret>>
    /\ UNCHANGED <<history, out, fs, env, argv, cmdLine, entry, arg, flags, cfg>>

\* lines 61-67
Load_ReadInConfig(c) ==
    /\ entry[c] = "Load" /\ pc[c] = "read"
    /\ IF arg[c] # ""
       THEN /\ v' = [v EXCEPT ![c] = ReadInConfig([v[c] EXCEPT !.configFile = arg[c]], fs[arg[c]])]
            /\ IF ReadErr(fs[arg[c]]) # ""
               THEN Return(c, [cfg |-> <<>>,
                               err |-> "failed to read config file: " \o ReadErr(fs[arg[c]])])
               ELSE Goto(c, "env") /\ UNCHANGED ret
       ELSE Goto(c, "env") /\ UNCHANGED <<v, ret>>
    /\ UNCHANGED <<history, out, fs, env, argv, cmdLine, entry, arg, flags, cfg>>

\* lines 69-72
Load_AutomaticEnv(c) ==
    /\ entry[c] = "Load" /\ pc[c] = "env"
    /\ v' = [v EXCEPT ![c] = AutomaticEnv(v[c])]
    /\ Goto(c, "unmarshal")
    /\ UNCHANGED <<history, out, fs, env, argv, cmdLine, entry, arg, flags, cfg, ret>>

\* variant: on a decoding error the half-filled Config is returned with the error
Load_UnmarshalLeaky(c) ==
    /\ entry[c] = "Load" /\ pc[c] = "unmarshal"
    /\ LET u == Unmarshal(v[c], env)
       IN  /\ cfg' = [cfg EXCEPT ![c] = u.cfg]
           /\ IF u.err # ""
              THEN Return(c, [cfg |-> <<u.cfg>>, err |-> "failed to unmarshal config: " \o u.err])
              ELSE Goto(c, "validate") /\ UNCHANGED ret
    /\ UNCHANGED <<history, out, fs, env, argv, cmdLine, entry, arg, v, flags>>

\* lines 74-78
Load_Unmarshal(c) ==
    /\ entry[c] = "Load" /\ pc[c] = "unmarshal"
    /\ LET u == Unmarshal(v[c], env)
       IN  /\ cfg' = [cfg EXCEPT ![c] = u.cfg]
           /\ IF u.err # ""
              THEN Return(c, [cfg |-> <<>>, err |-> "failed to unmarshal config: " \o u.err])
              ELSE Goto(c, "validate") /\ UNCHANGED ret
    /\ UNCHANGED <<history, out, fs, env, argv, cmdLine, entry, arg, v, flags>>

\* variant: the validator's error is returned without the wrapping prefix
Load_validateUnwrapped(c) ==
    /\ entry[c] = "Load" /\ pc[c] = "validate"
    /\ LET err == validate(cfg[c])
       IN  IF err # ""
           THEN Return(c, [cfg |-> <<>>, err |-> err])
           ELSE Return(c, [cfg |-> <<cfg[c]>>, err |-> ""])
    /\ UNCHANGED <<history, out, fs, env, argv, cmdLine, entry, arg, v, flags, cfg>>

\* lines 80-85
Load_validate(c) ==
    /\ entry[c] = "Load" /\ pc[c] = "validate"
    /\ LET err == validate(cfg[c])
       IN  IF err # ""
           THEN Return(c, [cfg |-> <<>>, err |-> "config validation failed: " \o err])
           ELSE Return(c, [cfg |-> <<cfg[c]>>, err |-> ""])
    /\ UNCHANGED <<history, out, fs, env, argv, cmdLine, entry, arg, v, flags, cfg>>

(***************************************************************************)
(* LoadWithFlags()                                                         *)
(***************************************************************************)
\* lines 91-106: the flags are defined on pflag.CommandLine (defining a flag
\* twice panics), then pflag.Parse exits the process on a malformed argument
LoadWithFlags_Parse(c) ==
    /\ entry[c] = "LoadWithFlags" /\ pc[c] = "call"
    /\ IF cmdLine \cap FlagNames # {}
       THEN Goto(c, "panic") /\ UNCHANGED <<cmdLine, flags, out>>
       ELSE /\ cmdLine' = cmdLine \cup FlagNames
            /\ IF Parse(argv).ok
               THEN /\ flags' = [flags EXCEPT ![c] = [changed |-> Parse(argv).changed,
                                                      val |-> Parse(argv).val]]
                    /\ Goto(c, "defaults")
                    /\ UNCHANGED out
               ELSE /\ Goto(c, "exit")
                    /\ out' = [out EXCEPT ![c] = [stdout |-> <<>>,
                                                  stderr |-> <<"invalid argument or unknown flag", "Usage">>,
                                                  status |-> 2]]
                    /\ UNCHANGED flags
    /\ UNCHANGED <<history, fs, env, argv, entry, arg, v, cfg, ret>>

\* lines 108-111
LoadWithFlags_setDefaults(c) ==
    /\ entry[c] = "LoadWithFlags" /\ pc[c] = "defaults"
    /\ v' = [v EXCEPT ![c] = setDefaults(New)]
    /\ Goto(c, "read")
    /\ UNCHANGED <<history, out, fs, env, argv, cmdLine, entry, arg, flags, cfg, ret>>

\* lines 113-118: the error of ReadInConfig is discarded
LoadWithFlags_ReadInConfig(c) ==
    /\ entry[c] = "LoadWithFlags" /\ pc[c] = "read"
    /\ LET configFile == flags[c].val["config"].s
       IN  IF configFile # ""
           THEN v' = [v EXCEPT ![c] = ReadInConfig([v[c] EXCEPT !.configFile = configFile],
                                                   fs[configFile])]
           ELSE UNCHANGED v
    /\ Goto(c, "env")
    /\ UNCHANGED <<history, out, fs, env, argv, cmdLine, entry, arg, flags, cfg, ret>>

\* lines 120-123
LoadWithFlags_AutomaticEnv(c) ==
    /\ entry[c] = "LoadWithFlags" /\ pc[c] = "env"
    /\ v' = [v EXCEPT ![c] = AutomaticEnv(v[c])]
    /\ Goto(c, "flags")
    /\ UNCHANGED <<history, out, fs, env, argv, cmdLine, entry, arg, flags, cfg, ret>>

\* lines 125-164
LoadWithFlags_Override(c) ==
    /\ entry[c] = "LoadWithFlags" /\ pc[c] = "flags"
    /\ v' = [v EXCEPT ![c] = Override(v[c], flags[c])]
    /\ Goto(c, "unmarshal")
    /\ UNCHANGED <<history, out, fs, env, argv, cmdLine, entry, arg, flags, cfg, ret>>

\* lines 166-172: no validate call before the return
LoadWithFlags_Unmarshal(c) ==
    /\ entry[c] = "LoadWithFlags" /\ pc[c] = "unmarshal"
    /\ LET u == Unmarshal(v[c], env)
       IN  /\ cfg' = [cfg EXCEPT ![c] = u.cfg]
           /\ IF u.err # ""
              THEN Return(c, [cfg |-> <<>>, err |-> "failed to unmarshal config: " \o u.err])
              ELSE Return(c, [cfg |-> <<u.cfg>>, err |-> ""])
    /\ UNCHANGED <<history, out, fs, env, argv, cmdLine, entry, arg, v, flags>>

(***************************************************************************)
(* main                                                                    *)
(***************************************************************************)
\* []byte(s): the bytes of the passwords that the layers hold
Bytes(s) ==
    CASE s = "" -> <<>>
      [] s = "imap.password@file" ->
           <<105, 109, 97, 112, 46, 112, 97, 115, 115, 119, 111, 114,
             100, 64, 102, 105, 108, 101>>
      [] s = "imap.password@env" ->
           <<105, 109, 97, 112, 46, 112, 97, 115, 115, 119, 111, 114,
             100, 64, 101, 110, 118>>
      [] s = "imap.password@cli" ->
           <<105, 109, 97, 112, 46, 112, 97, 115, 115, 119, 111, 114,
             100, 64, 99, 108, 105>>

\* string(b) for a byte b: the UTF-8 encoding of the code point whose number is
\* b, one byte below 0x80 and two from there on
EncodeRune(b) ==
    IF b < 128 THEN <<b>> ELSE <<192 + (b \div 64), 128 + (b % 64)>>

\* "***"
Stars == <<42, 42, 42>>

\* maskPassword: the bytes of the string it returns
maskPassword(password) ==
    IF Len(password) = 0 THEN <<>>
    ELSE IF Len(password) <= 2 THEN Stars
    ELSE EncodeRune(password[1]) \o Stars \o EncodeRune(password[Len(password)])

\* one character of the output, for the bytes main's lines are made of
Chr(b) ==
    CASE b = 97 -> "a"
      [] b = 98 -> "b"
      [] b = 99 -> "c"
      [] b = 100 -> "d"
      [] b = 101 -> "e"
      [] b = 102 -> "f"
      [] b = 103 -> "g"
      [] b = 104 -> "h"
      [] b = 105 -> "i"
      [] b = 106 -> "j"
      [] b = 107 -> "k"
      [] b = 108 -> "l"
      [] b = 109 -> "m"
      [] b = 110 -> "n"
      [] b = 111 -> "o"
      [] b = 112 -> "p"
      [] b = 113 -> "q"
      [] b = 114 -> "r"
      [] b = 115 -> "s"
      [] b = 116 -> "t"
      [] b = 117 -> "u"
      [] b = 118 -> "v"
      [] b = 119 -> "w"
      [] b = 120 -> "x"
      [] b = 121 -> "y"
      [] b = 122 -> "z"
      [] b = 46 -> "."
      [] b = 64 -> "@"
      [] b = 42 -> "*"
      [] OTHER -> "?"

\* string(bytes)
RECURSIVE String(_)
String(bytes) ==
    IF bytes = <<>> THEN "" ELSE Chr(Head(bytes)) \o String(Tail(bytes))

\* the %t verb
FormatBool(b) == IF b THEN "true" ELSE "false"

\* lines 19-53: the lines main prints for a Config
Println(c) ==
    <<"=== DMARC Report Viewer Configuration ===", "",
      "IMAP Configuration:",
      "  Host:     " \o c["imap.host"].s,
      "  Port:     " \o ToString(c["imap.port"].i),
      "  Username: " \o c["imap.username"].s,
      "  Password: " \o String(maskPassword(Bytes(c["imap.password"].s))),
      "  Folder:   " \o c["imap.folder"].s,
      "  Use TLS:  " \o FormatBool(c["imap.use_tls"].b), "",
      "Database Configuration:",
      "  Path: " \o c["database.path"].s, "",
      "Web Server Configuration:",
      "  Host: " \o c["web.host"].s,
      "  Port: " \o ToString(c["web.port"].i), "",
      "Sync Configuration:",
      "  Interval:   " \o c["sync.interval"].s,
      "  On Startup: " \o FormatBool(c["sync.on_startup"].b), "",
      "Logging Configuration:",
      "  Level:  " \o c["logging.level"].s,
      "  Format: " \o c["logging.format"].s, "",
      "Configuration loaded successfully!", "",
      "Note: This is a basic configuration test.",
      "Full application functionality will be available in future tasks.">>

\* lines 12-54: what main does once config.LoadWithFlags() has returned
main(c) ==
    /\ entry[c] = "LoadWithFlags" /\ pc[c] = "done" /\ out[c] = Running
    /\ IF ret[c].err # ""
       THEN out' = [out EXCEPT ![c] = [stdout |-> <<>>,
                                      stderr |-> <<"Error loading configuration: " \o ret[c].err>>,
                                      status |-> 1]]
       ELSE out' = [out EXCEPT ![c] = [stdout |-> Println(ret[c].cfg[1]),
                                      stderr |-> <<>>,
                                      status |-> 0]]
    /\ UNCHANGED <<history, fs, env, argv, cmdLine, entry, arg, pc, v, flags, cfg, ret>>

(***************************************************************************)
(* validate called directly on a Config literal, as TestValidate does      *)
(***************************************************************************)
ValidateInputs ==
    {[k \in Keys |->
        CASE k = "imap.host" -> Str(h)
          [] k = "imap.username" -> Str(u)
          [] k = "imap.password" -> Str(p)
          [] k = "database.path" -> Str(d)
          [] k = "logging.level" -> Str(l)
          [] k = "logging.format" -> Str(f)
          [] OTHER -> ZeroValue(k)] :
        h \in {"", "imap.test.com"}, u \in {"", "test@test.com"}, p \in {"", "testpass"},
        d \in {"", "./test.db"}, l \in {"", "info", "debug", "warn", "error", "invalid"},
        f \in {"", "text", "json", "invalid"}}

InitValidate ==
    \E c0 \in ValidateInputs :
        /\ fs = [p \in Paths |-> NoFile]
        /\ env = [n \in Environ |-> Unset]
        /\ argv = [f \in ArgNames |-> NotGiven]
        /\ cmdLine = {}
        /\ entry = [c \in Calls |-> IF c = "c1" THEN "validate" ELSE "none"]
        /\ arg = [c \in Calls |-> ""]
        /\ pc = [c \in Calls |-> IF c = "c1" THEN "call" ELSE "idle"]
        /\ v = [c \in Calls |-> New]
        /\ flags = [c \in Calls |-> NoFlags]
        /\ cfg = [c \in Calls |-> IF c = "c1" THEN c0 ELSE ZeroConfig]
        /\ ret = [c \in Calls |-> NoReturn]
        /\ out = [c \in Calls |-> Running]
        /\ history = [c \in Calls |-> {}]

\* err := validate(&tt.config)
TestValidate(c) ==
    /\ entry[c] = "validate" /\ pc[c] = "call"
    /\ Return(c, [cfg |-> <<>>, err |-> validate(cfg[c])])
    /\ UNCHANGED <<history, out, fs, env, argv, cmdLine, entry, arg, v, flags, cfg>>

NextValidate == \E c \in Calls : TestValidate(c)

SpecValidate == InitValidate /\ [][NextValidate]_vars

\* the six fields validate reads
CheckedFields == {"imap.host", "imap.username", "imap.password", "database.path",
                  "logging.level", "logging.format"}

\* the values a Config literal may give the seven fields validate does not read
Unchecked ==
    {[k \in Keys \ CheckedFields |->
        CASE k = "imap.port" -> Num(ip)
          [] k = "imap.folder" -> Str(IF strs THEN "INBOX" ELSE "")
          [] k = "imap.use_tls" -> Bool(tls)
          [] k = "web.host" -> Str(wh)
          [] k = "web.port" -> Num(wp)
          [] k = "sync.interval" -> Str(IF strs THEN "15m" ELSE "")
          [] k = "sync.on_startup" -> Bool(ons)] :
        ip \in {0 - 1, 0, 993}, wp \in {0, 8080}, wh \in {"", "localhost"},
        tls \in BOOLEAN, ons \in BOOLEAN, strs \in BOOLEAN}

\* two callers hand validate Configs that agree on the six fields it reads
InitFrame ==
    \E c0 \in ValidateInputs, u \in Unchecked :
        /\ fs = [p \in Paths |-> NoFile]
        /\ env = [n \in Environ |-> Unset]
        /\ argv = [f \in ArgNames |-> NotGiven]
        /\ cmdLine = {}
        /\ entry = [c \in Calls |-> "validate"]
        /\ arg = [c \in Calls |-> ""]
        /\ pc = [c \in Calls |-> "call"]
        /\ v = [c \in Calls |-> New]
        /\ flags = [c \in Calls |-> NoFlags]
        /\ cfg = [c \in Calls |->
                    IF c = "c1" THEN c0
                    ELSE [k \in Keys |-> IF k \in DOMAIN u THEN u[k] ELSE c0[k]]]
        /\ ret = [c \in Calls |-> NoReturn]
        /\ out = [c \in Calls |-> Running]
        /\ history = [c \in Calls |-> {}]

SpecFrame == InitFrame /\ [][NextValidate]_vars

Next ==
    \E c \in Calls :
        \/ Load_setDefaults(c)
        \/ Load_ReadInConfig(c)
        \/ Load_AutomaticEnv(c)
        \/ Load_Unmarshal(c)
        \/ Load_validate(c)
        \/ LoadWithFlags_Parse(c)
        \/ LoadWithFlags_setDefaults(c)
        \/ LoadWithFlags_ReadInConfig(c)
        \/ LoadWithFlags_AutomaticEnv(c)
        \/ LoadWithFlags_Override(c)
        \/ LoadWithFlags_Unmarshal(c)
        \/ main(c)

Spec == Init /\ [][Next]_vars

(***************************************************************************)
(* A caller that calls Load again and again in one process, as the test    *)
(* binary does with its TestLoad_ functions                                *)
(***************************************************************************)
InitRepeat == InitOf({"Load"})

\* once the first call is over, the caller calls Load(a): a fresh frame, in
\* which v and cfg are not yet declared
Call(c, a) ==
    /\ c # "c1" /\ entry["c1"] = "Load" /\ pc["c1"] = "done"
    /\ pc[c] \in {"idle", "done"}
    /\ history' = [history EXCEPT ![c] = IF pc[c] = "done" THEN @ \cup {arg[c]} ELSE @]
    /\ entry' = [entry EXCEPT ![c] = "Load"]
    /\ arg' = [arg EXCEPT ![c] = a]
    /\ pc' = [pc EXCEPT ![c] = "call"]
    /\ ret' = [ret EXCEPT ![c] = NoReturn]
    /\ UNCHANGED <<out, fs, env, argv, cmdLine, v, flags, cfg>>

NextRepeat ==
    \E c \in Calls :
        \/ Load_setDefaults(c)
        \/ Load_ReadInConfig(c)
        \/ Load_AutomaticEnv(c)
        \/ Load_Unmarshal(c)
        \/ Load_validate(c)
        \/ \E a \in {"config.yaml", ""} : Call(c, a)

SpecRepeat == InitRepeat /\ [][NextRepeat]_vars

(***************************************************************************)
(* A caller that calls LoadWithFlags again in one process                  *)
(***************************************************************************)
InitAgain == InitOf({"LoadWithFlags"})

\* once the first call has returned, the caller calls LoadWithFlags(): a fresh
\* frame; pflag.CommandLine and os.Args are the process's and stay as they are
CallWithFlags(c) ==
    /\ c # "c1" /\ entry["c1"] = "LoadWithFlags" /\ pc["c1"] = "done"
    /\ pc[c] = "idle"
    /\ entry' = [entry EXCEPT ![c] = "LoadWithFlags"]
    /\ pc' = [pc EXCEPT ![c] = "call"]
    /\ UNCHANGED <<history, out, fs, env, argv, cmdLine, arg, v, flags, cfg, ret>>

\* resetFlags of config_test.go: pflag.CommandLine = pflag.NewFlagSet(...)
resetFlags ==
    /\ cmdLine # {}
    /\ \A c \in Calls : pc[c] \in {"idle", "done"}
    /\ cmdLine' = {}
    /\ UNCHANGED <<history, out, fs, env, argv, entry, arg, pc, v, flags, cfg, ret>>

NextAgain ==
    \/ \E c \in Calls :
        \/ LoadWithFlags_Parse(c)
        \/ LoadWithFlags_setDefaults(c)
        \/ LoadWithFlags_ReadInConfig(c)
        \/ LoadWithFlags_AutomaticEnv(c)
        \/ LoadWithFlags_Override(c)
        \/ LoadWithFlags_Unmarshal(c)
        \/ CallWithFlags(c)
    \/ resetFlags

SpecAgain == InitAgain /\ [][NextAgain]_vars

(***************************************************************************)
(* Two Load calls in flight at once, each on a file of its own, as tests   *)
(* running in parallel make them                                           *)
(***************************************************************************)
\* the documents the second caller finds at other.yaml
OtherDocs == {"minimal", "invalid"}

InitInterleaved ==
    \E scen \in Scenarios, K \in Varied, other \in OtherDocs :
      /\ scen.vary \/ K = {}
      /\ scen.argv = "none"
      /\ \E o \in Choices(K, "Load", scen.file) :
        /\ fs = [p \in Paths |-> IF p = "config.yaml" THEN FileOf(scen.file, K, o)
                                 ELSE FileOf(other, {}, <<>>)]
        /\ env = EnvOf(scen.env, K, o)
        /\ argv = ArgvOf("Load", scen, K, o)
        /\ cmdLine = {}
        /\ entry = [c \in Calls |-> "Load"]
        /\ arg = [c \in Calls |-> IF c = "c2" THEN "other.yaml"
                                  ELSE IF scen.file # "nopath" THEN "config.yaml" ELSE ""]
        /\ pc = [c \in Calls |-> "call"]
        /\ v = [c \in Calls |-> New]
        /\ flags = [c \in Calls |-> NoFlags]
        /\ cfg = [c \in Calls |-> ZeroConfig]
        /\ ret = [c \in Calls |-> NoReturn]
        /\ out = [c \in Calls |-> Running]
        /\ history = [c \in Calls |-> {}]

\* the steps of the two calls, in any order
NextInterleaved ==
    \E c \in Calls :
        \/ Load_setDefaults(c)
        \/ Load_ReadInConfig(c)
        \/ Load_AutomaticEnv(c)
        \/ Load_Unmarshal(c)
        \/ Load_validate(c)

SpecInterleaved == InitInterleaved /\ [][NextInterleaved]_vars

(***************************************************************************)
(* maskPassword called on a password of any bytes                          *)
(***************************************************************************)
\* the bytes a password is made of here: '*', 'a', 'z' and 0xC3, the first
\* byte of a two-byte UTF-8 character
PasswordBytes == {42, 97, 122, 195}

Passwords == UNION {[1..n -> PasswordBytes] : n \in 0..MaxPassword}

InitMask ==
    \E password \in Passwords :
        /\ fs = [p \in Paths |-> NoFile]
        /\ env = [n \in Environ |-> Unset]
        /\ argv = [f \in ArgNames |-> NotGiven]
        /\ cmdLine = {}
        /\ entry = [c \in Calls |-> IF c = "c1" THEN "maskPassword" ELSE "none"]
        /\ arg = [c \in Calls |-> IF c = "c1" THEN password ELSE <<>>]
        /\ pc = [c \in Calls |-> IF c = "c1" THEN "call" ELSE "idle"]
        /\ v = [c \in Calls |-> New]
        /\ flags = [c \in Calls |-> NoFlags]
        /\ cfg = [c \in Calls |-> ZeroConfig]
        /\ ret = [c \in Calls |-> NoReturn]
        /\ out = [c \in Calls |-> Running]
        /\ history = [c \in Calls |-> {}]

\* line 26: the string maskPassword returns is written to standard output
PrintPassword(c) ==
    /\ entry[c] = "maskPassword" /\ pc[c] = "call"
    /\ out' = [out EXCEPT ![c] = [stdout |-> <<maskPassword(arg[c])>>,
                                  stderr |-> <<>>, status |-> -1]]
    /\ Goto(c, "done")
    /\ UNCHANGED <<history, fs, env, argv, cmdLine, entry, arg, v, flags, cfg, ret>>

NextMask == \E c \in Calls : PrintPassword(c)

SpecMask == InitMask /\ [][NextMask]_vars

(***************************************************************************)
(* What the callers see, and what each layer holds for a key               *)
(***************************************************************************)
Returned(c) == pc[c] = "done" /\ ret[c].cfg # <<>>
Result(c) == ret[c].cfg[1]

PathOf(c) ==
    IF entry[c] = "Load" THEN arg[c]
    ELSE IF argv["config"].given THEN argv["config"].raw ELSE "config.yaml"

FileRead(c) == PathOf(c) # "" /\ fs[PathOf(c)].status = "ok"
FileHas(c, k) == FileRead(c) /\ fs[PathOf(c)].val[k] # Nil
FileVal(c, k) == fs[PathOf(c)].val[k]

\* the variable of the key is set, and set to a non-empty value
EnvSet(k) == env[EnvVarName("DMARC", k)].set /\ env[EnvVarName("DMARC", k)].val # ""
EnvVal(k) == Str(env[EnvVarName("DMARC", k)].val)

CliGiven(c, k) == entry[c] = "LoadWithFlags" /\ argv[FlagOf(k)].given
CliVal(k) == FlagSet(FlagOf(k), argv[FlagOf(k)].raw).val

\* the ten defaults the specification enumerates
ClaimedDefault(k) ==
    CASE k = "imap.port" -> Num(993)
      [] k = "imap.folder" -> Str("INBOX")
      [] k = "imap.use_tls" -> Bool(TRUE)
      [] k = "database.path" -> Str("./dmarc-reports.db")
      [] k = "web.host" -> Str("localhost")
      [] k = "web.port" -> Num(8080)
      [] k = "sync.interval" -> Str("15m")
      [] k = "sync.on_startup" -> Bool(TRUE)
      [] k = "logging.level" -> Str("info")
      [] k = "logging.format" -> Str("text")
      [] OTHER -> Nil

\* an untyped value as the field of that key holds it
Typed(k, x) == IF x = Nil THEN ZeroValue(k) ELSE Decode(Kind(k), x).val

\* the value of the highest layer that has an entry for the key
Precedence(c, k) ==
    IF CliGiven(c, k) THEN CliVal(k)
    ELSE IF EnvSet(k) THEN EnvVal(k)
    ELSE IF FileHas(c, k) THEN FileVal(c, k)
    ELSE ClaimedDefault(k)

(***************************************************************************)
(* C1                                                                      *)
(***************************************************************************)
\* C1: for every key, a returned Config holds the CLI value if the flag was
\* supplied, otherwise the environment value if the variable is set, otherwise
\* the file value if the file has the key, otherwise the default.
C1_Precedence ==
    \A c \in Calls : Returned(c) =>
        \A k \in Keys : Result(c)[k] = Typed(k, Precedence(c, k))

(***************************************************************************)
(* C2                                                                      *)
(***************************************************************************)
\* C2: every Config returned without error, by Load or by LoadWithFlags, has
\* non-empty imap.host, imap.username, imap.password and database.path, a
\* logging.level among debug/info/warn/error and a logging.format among json/text.
C2_ReturnedConfigValid ==
    \A c \in Calls : Returned(c) =>
        /\ Result(c)["imap.host"].s # ""
        /\ Result(c)["imap.username"].s # ""
        /\ Result(c)["imap.password"].s # ""
        /\ Result(c)["database.path"].s # ""
        /\ Result(c)["logging.level"].s \in {"debug", "info", "warn", "error"}
        /\ Result(c)["logging.format"].s \in {"json", "text"}

(***************************************************************************)
(* C3                                                                      *)
(***************************************************************************)
\* C3: a flag the user did not supply never changes the resolved value of its
\* key: no override is written for it, and the returned Config holds for that
\* key what the layers below the command line resolve to, whatever the flag's
\* declared default.
C3_UnsuppliedFlagInert ==
    \A c \in Calls : (entry[c] = "LoadWithFlags" /\ pc[c] \in {"unmarshal", "done"}) =>
        LET below == Unmarshal([v[c] EXCEPT !.override = NoValues], env).cfg
        IN  \A k \in Keys : ~argv[FlagOf(k)].given =>
                /\ v[c].override[k] = Nil
                /\ Returned(c) => Result(c)[k] = below[k]

\* a Config came back with no flag supplied for imap.host or imap.use_tls: the
\* file's host survived the flag default "" and the file's use_tls=false was
\* not turned into the flag default true
C3_Witness ==
    \E c \in Calls :
        /\ entry[c] = "LoadWithFlags" /\ Returned(c)
        /\ ~argv["imap-host"].given /\ ~argv["imap-use-tls"].given
        /\ FileHas(c, "imap.host") /\ FileVal(c, "imap.host").s # ""
        /\ Result(c)["imap.host"] = FileVal(c, "imap.host")
        /\ FileHas(c, "imap.use_tls") /\ FileVal(c, "imap.use_tls") = Bool(FALSE)
        /\ Get(v[c], env, "imap.use_tls") = Bool(FALSE)
        /\ Result(c)["imap.use_tls"] = Bool(FALSE)

(***************************************************************************)
(* C4                                                                      *)
(***************************************************************************)
ValidateChecks ==
    <<"imap.host", "imap.username", "imap.password", "database.path",
      "logging.level", "logging.format">>

CheckFails(c, i) ==
    CASE i = 5 -> c[ValidateChecks[i]].s \notin {"debug", "info", "warn", "error"}
      [] i = 6 -> c[ValidateChecks[i]].s \notin {"json", "text"}
      [] OTHER -> c[ValidateChecks[i]].s = ""

CheckMessage(c, i) ==
    CASE i = 5 -> "invalid log level: " \o c[ValidateChecks[i]].s
                      \o " (must be debug, info, warn, or error)"
      [] i = 6 -> "invalid log format: " \o c[ValidateChecks[i]].s
                      \o " (must be json or text)"
      [] OTHER -> ValidateChecks[i] \o " is required"

\* the message of the first failing check in the documented order, "" if none fails
FirstFailure(c) ==
    LET failing == {i \in DOMAIN ValidateChecks : CheckFails(c, i)}
    IN  IF failing = {} THEN ""
        ELSE CheckMessage(c, CHOOSE i \in failing : \A j \in failing : i <= j)

\* C4: validate returns the message of the first failing check in the order
\* imap.host, imap.username, imap.password, database.path, logging.level,
\* logging.format, with the exact wording, and nil exactly when all six pass.
C4_ValidateFirstFailure ==
    \A c \in Calls : (entry[c] = "validate" /\ pc[c] = "done") =>
        ret[c].err = FirstFailure(cfg[c])

\* validate ran on a Config failing the database.path, level and format
\* checks at once and reported the database.path message only
C4_Witness ==
    \E c \in Calls :
        /\ entry[c] = "validate" /\ pc[c] = "done"
        /\ cfg[c]["imap.host"].s # "" /\ cfg[c]["imap.username"].s # ""
        /\ cfg[c]["imap.password"].s # ""
        /\ cfg[c]["database.path"].s = ""
        /\ cfg[c]["logging.level"].s = "invalid" /\ cfg[c]["logging.format"].s = "invalid"
        /\ ret[c].err = "database.path is required"

(***************************************************************************)
(* C5                                                                      *)
(***************************************************************************)
\* C5: when Load's validation step fails, Load returns no Config and the error
\* "config validation failed: " followed by the validator's message unchanged.
C5_ValidationErrorWrapped ==
    [][\A c \in Calls :
         (entry[c] = "Load" /\ pc[c] = "validate" /\ pc'[c] = "done"
            /\ FirstFailure(cfg[c]) # "") =>
         ret'[c] = [cfg |-> <<>>,
                    err |-> "config validation failed: " \o FirstFailure(cfg[c])]]_vars

\* Load came back from a file whose logging.level is invalid_level
C5_Witness ==
    \E c \in Calls :
        /\ entry[c] = "Load" /\ pc[c] = "done"
        /\ FileHas(c, "logging.level") /\ FileVal(c, "logging.level").s = "invalid_level"
        /\ ret[c].cfg = <<>>
        /\ ret[c].err = "config validation failed: invalid log level: invalid_level (must be debug, info, warn, or error)"

(***************************************************************************)
(* C6                                                                      *)
(***************************************************************************)
AfterSetDefaults(c) ==
    \/ entry[c] = "Load" /\ pc[c] \in {"read", "env", "unmarshal", "validate", "done"}
    \/ entry[c] = "LoadWithFlags" /\ pc[c] \in {"read", "env", "flags", "unmarshal", "done"}

AbsentEverywhere(c, k) == ~FileHas(c, k) /\ ~EnvSet(k) /\ ~CliGiven(c, k)

\* the registry holds the ten enumerated defaults and nothing else
DefaultsAsEnumerated ==
    \A c \in Calls : AfterSetDefaults(c) =>
        \A k \in Keys : v[c].defaults[k] = ClaimedDefault(k)

\* Load never accepts a Config whose required key is absent from every layer
LoadRejectsAbsentRequired ==
    \A c \in Calls : (entry[c] = "Load" /\ pc[c] = "done") =>
        \A k \in Required : AbsentEverywhere(c, k) => ret[c].cfg = <<>> /\ ret[c].err # ""

\* C6: the registry sets exactly the ten enumerated defaults and none for
\* imap.host, imap.username, imap.password, so a required key absent from
\* every layer ends in an error and never in an accepted empty string.
C6_DefaultsAndRequired ==
    /\ DefaultsAsEnumerated
    /\ \A c \in Calls : pc[c] = "done" =>
         \A k \in Required : AbsentEverywhere(c, k) => ret[c].cfg = <<>> /\ ret[c].err # ""

(***************************************************************************)
(* C7                                                                      *)
(***************************************************************************)
\* C7: when the file declares a section but omits a boolean leaf of it, and
\* neither an environment variable nor a flag sets the leaf, the returned
\* Config holds the leaf's default, true.
C7_NonShadowing ==
    \A c \in Calls : Returned(c) =>
        \A k \in {"imap.use_tls", "sync.on_startup"} :
            (/\ FileRead(c) /\ Section(k) \in fs[PathOf(c)].decl /\ ~FileHas(c, k)
             /\ ~EnvSet(k) /\ ~CliGiven(c, k))
            => Result(c)[k] = Bool(TRUE)

(***************************************************************************)
(* C8                                                                      *)
(***************************************************************************)
OptionalNonBoolean ==
    {"imap.port", "imap.folder", "database.path", "web.host", "web.port",
     "sync.interval", "logging.level", "logging.format"}

\* C8: for each of imap.port, imap.folder, database.path, web.host, web.port,
\* sync.interval, logging.level, logging.format that the file omits (section
\* missing or leaf missing) and no environment variable sets, the Config Load
\* returns holds the registered default.
C8_OmittedKeysGetDefaults ==
    \A c \in Calls : (entry[c] = "Load" /\ Returned(c)) =>
        \A k \in OptionalNonBoolean :
            (~FileHas(c, k) /\ ~EnvSet(k)) => Result(c)[k] = ClaimedDefault(k)

\* Load returned a Config from a file that declares imap without port or
\* folder and has no database, web or sync section at all
C8_Witness ==
    \E c \in Calls :
        /\ entry[c] = "Load" /\ Returned(c) /\ FileRead(c)
        /\ "imap" \in fs[PathOf(c)].decl
        /\ {"database", "web", "sync"} \cap fs[PathOf(c)].decl = {}
        /\ \A k \in OptionalNonBoolean \ {"logging.level", "logging.format"} :
              ~FileHas(c, k) /\ ~EnvSet(k)
        /\ Result(c)["imap.port"] = Num(993)
        /\ Result(c)["imap.folder"] = Str("INBOX")
        /\ Result(c)["database.path"] = Str("./dmarc-reports.db")
        /\ Result(c)["web.host"] = Str("localhost")
        /\ Result(c)["web.port"] = Num(8080)
        /\ Result(c)["sync.interval"] = Str("15m")

(***************************************************************************)
(* C9                                                                      *)
(***************************************************************************)
\* the environment with the variables of the thirteen keys taken out
WithoutKeyVars(environ) == [n \in Environ |-> IF n \in EnvNames THEN Unset ELSE environ[n]]

\* the frame half of C9: a key with no environment variable of its own resolves
\* as it does without the variables of the other keys
EnvLeavesOtherKeys ==
    \A c \in Calls : (entry[c] = "Load" /\ Returned(c)) =>
        \A k \in Keys : ~EnvSet(k) =>
            Result(c)[k] = Unmarshal(v[c], WithoutKeyVars(env)).cfg[k]

\* C9: setting DMARC_<KEY> replaces that key's resolved value and leaves every
\* other key's resolved value as the file and the defaults gave it.
C9_EnvOverlaysOwnKey ==
    \A c \in Calls : (entry[c] = "Load" /\ Returned(c)) =>
        \A j \in Keys : EnvSet(j) =>
            /\ Result(c)[j] = Typed(j, EnvVal(j))
            /\ \A k \in Keys \ {j} : ~EnvSet(k) =>
                  Result(c)[k] = Unmarshal(v[c], WithoutKeyVars(env)).cfg[k]

(***************************************************************************)
(* C10                                                                     *)
(***************************************************************************)
\* the required keys come from the environment only and nothing else is set
RequiredOnlyInEnv(c) ==
    /\ PathOf(c) = "" \/ FileRead(c)
    /\ \A k \in Required : EnvSet(k) /\ ~FileHas(c, k)
    /\ \A k \in Keys \ Required : ~EnvSet(k) /\ ~FileHas(c, k)
    /\ \A k \in Keys : ~CliGiven(c, k)

\* C10: every DMARC_ variable naming a known key supplies that key's resolved
\* value, also when neither file nor defaults have the key: with the three
\* required keys given through the environment only, resolution succeeds and
\* the Config holds the environment values.
C10_EnvSupplies ==
    \A c \in Calls :
        /\ Returned(c) =>
             \A k \in Keys : (EnvSet(k) /\ ~CliGiven(c, k)) => Result(c)[k] = Typed(k, EnvVal(k))
        /\ (pc[c] = "done" /\ RequiredOnlyInEnv(c)) =>
             /\ ret[c].err = "" /\ ret[c].cfg # <<>>
             /\ \A k \in Required : Result(c)[k] = EnvVal(k)

(***************************************************************************)
(* C11                                                                     *)
(***************************************************************************)
\* C11: with DMARC_LOG_LEVEL set to a valid level and no --log-level flag, a
\* returned Config holds that level, whatever the file and the default say.
C11_LogLevelVariable ==
    \A c \in Calls : (Returned(c) /\ ~CliGiven(c, "logging.level")) =>
        ((/\ env["DMARC_LOG_LEVEL"].set
          /\ env["DMARC_LOG_LEVEL"].val \in {"debug", "info", "warn", "error"})
         => Result(c)["logging.level"] = Str(env["DMARC_LOG_LEVEL"].val))

(***************************************************************************)
(* C12                                                                     *)
(***************************************************************************)
\* what Load returns once the file stage is over, from the viper instance and
\* the environment
LoadTail(vp, environ) ==
    LET u == Unmarshal(vp, environ)
    IN  IF u.err # "" THEN [cfg |-> <<>>, err |-> "failed to unmarshal config: " \o u.err]
        ELSE IF FirstFailure(u.cfg) # ""
             THEN [cfg |-> <<>>, err |-> "config validation failed: " \o FirstFailure(u.cfg)]
        ELSE [cfg |-> <<u.cfg>>, err |-> ""]

\* the viper instance without the file's unknown keys
KnownOnly(vp) ==
    [vp EXCEPT !.config = [k \in AnyKeys |-> IF k \in Keys THEN vp.config[k] ELSE Nil]]

\* the environment without the DMARC_ variables that name no known key
NoStrangers(environ) == [n \in Environ |-> IF n \in EnvNames THEN environ[n] ELSE Unset]

LoadPastFile(c) == entry[c] = "Load" /\ pc[c] = "done" /\ v[c].automaticEnv

\* the file half of C12: unknown keys of the file change nothing
UnknownFileKeysIgnored ==
    \A c \in Calls : LoadPastFile(c) => ret[c] = LoadTail(KnownOnly(v[c]), env)

\* the variables of C12 that are not named after a section change nothing
UnknownLeafVariablesIgnored ==
    \A c \in Calls :
        (LoadPastFile(c) /\ \A k \in Keys : ~env[ParentVarName("DMARC", k)].set)
        => ret[c] = LoadTail(v[c], NoStrangers(env))

\* C12: Load ends as it would without the file's unknown keys and without
\* the DMARC_ variables that name no known key: the same error or none, and
\* the same value for every known key.
C12_UnknownKeysTolerated ==
    \A c \in Calls : LoadPastFile(c) => ret[c] = LoadTail(KnownOnly(v[c]), NoStrangers(env))

(***************************************************************************)
(* C13                                                                     *)
(***************************************************************************)
\* C13: Load on a non-empty path whose file is not valid YAML returns no Config
\* and the file-read error, never a validation error, whatever the environment
\* holds and whatever the document would have set.
C13_InvalidYAMLFails ==
    \A c \in Calls :
        (entry[c] = "Load" /\ pc[c] = "done" /\ arg[c] # "" /\ fs[arg[c]].status = "invalid")
        => ret[c] = [cfg |-> <<>>,
                     err |-> "failed to read config file: While parsing config: yaml"]

\* Load came back with the read error from a malformed document that has
\* imap.host but no username, while DMARC_ variables of known keys were set
C13_Witness ==
    \E c \in Calls :
        /\ entry[c] = "Load" /\ pc[c] = "done" /\ arg[c] # ""
        /\ fs[arg[c]].status = "invalid"
        /\ fs[arg[c]].val["imap.host"] # Nil /\ fs[arg[c]].val["imap.username"] = Nil
        /\ \E k \in Keys : EnvSet(k)
        /\ ret[c].cfg = <<>>
        /\ ret[c].err = "failed to read config file: While parsing config: yaml"

(***************************************************************************)
(* C14                                                                     *)
(***************************************************************************)
\* C14: LoadWithFlags, with a file at the --config path that is not valid
\* YAML, returns an error and no Config.
C14_InvalidFileAbortsCLI ==
    \A c \in Calls :
        (/\ entry[c] = "LoadWithFlags" /\ pc[c] = "done"
         /\ PathOf(c) # "" /\ fs[PathOf(c)].status = "invalid")
        => ret[c].cfg = <<>> /\ ret[c].err # ""

(***************************************************************************)
(* C15                                                                     *)
(***************************************************************************)
ParseFailure(c) == PathOf(c) # "" /\ fs[PathOf(c)].status = "invalid"
TypeFailure(c) == Unmarshal(v[c], env).err # ""
ValidationFailure(c) == FirstFailure(cfg[c]) # ""

Printed(c, line) == \E i \in DOMAIN out[c].stdout : out[c].stdout[i] = line

MainOver(c) == entry[c] = "LoadWithFlags" /\ pc[c] = "done" /\ out[c] # Running

\* main reports every error LoadWithFlags returns and prints nothing else
MainReportsReturnedError ==
    \A c \in Calls : (MainOver(c) /\ ret[c].err # "") =>
        /\ out[c].stdout = <<>> /\ out[c].status = 1
        /\ out[c].stderr = <<"Error loading configuration: " \o ret[c].err>>

\* C15: when the file does not parse, a value does not coerce or the resolved
\* Config fails validation, main writes to standard error, exits non-zero and
\* prints no configuration; it prints the configuration and "Configuration
\* loaded successfully!" only when none of the three happened.
C15_FatalErrorsExit ==
    \A c \in Calls : MainOver(c) =>
        LET fatal == ParseFailure(c) \/ TypeFailure(c) \/ ValidationFailure(c)
        IN  /\ fatal => (out[c].stderr # <<>> /\ out[c].status # 0 /\ out[c].stdout = <<>>)
            /\ Printed(c, "Configuration loaded successfully!") => ~fatal

(***************************************************************************)
(* C16                                                                     *)
(***************************************************************************)
MissingFile(c) == PathOf(c) # "" /\ fs[PathOf(c)].status = "missing"

\* the LoadWithFlags half of C16
MissingFileToleratedCLI ==
    \A c \in Calls : (entry[c] = "LoadWithFlags" /\ pc[c] = "done" /\ MissingFile(c)) =>
        /\ ret[c].err \in {"", "failed to unmarshal config: decoding failed"}
        /\ ret[c].err = "" => Result(c) = Unmarshal(Override(AutomaticEnv(setDefaults(New)), flags[c]), env).cfg

\* C16: at both entry points, when the file named by the path does not exist
\* the call does not fail because of it: it ends as the defaults, the
\* environment and the flags alone decide.
C16_MissingFileTolerated ==
    \A c \in Calls : (pc[c] = "done" /\ MissingFile(c)) =>
        IF entry[c] = "Load"
        THEN ret[c] = LoadTail(AutomaticEnv(setDefaults(New)), env)
        ELSE /\ ret[c].err \in {"", "failed to unmarshal config: decoding failed"}
             /\ ret[c].err = "" =>
                  Result(c) = Unmarshal(Override(AutomaticEnv(setDefaults(New)), flags[c]), env).cfg

(***************************************************************************)
(* C17                                                                     *)
(***************************************************************************)
EmptyPath(c) == entry[c] = "Load" /\ arg[c] = ""

\* Load("") reads no file
EmptyPathReadsNothing ==
    \A c \in Calls : EmptyPath(c) => v[c].config = NoValues /\ v[c].configFile = ""

\* Load("") never returns a file-read or parse error
EmptyPathNoReadError ==
    \A c \in Calls : (EmptyPath(c) /\ pc[c] = "done") =>
        ret[c].err \notin {"failed to read config file: " \o ReadErr(fs[p]) : p \in Paths}

\* C17: Load("") reads no file, never fails with a file-read or parse error,
\* and every key it resolves holds the value of its environment variable, or
\* its default when the variable is not set.
C17_EmptyPathNoOp ==
    /\ EmptyPathReadsNothing
    /\ EmptyPathNoReadError
    /\ \A c \in Calls : (EmptyPath(c) /\ pc[c] = "validate") =>
          \A k \in Keys :
              cfg[c][k] = Typed(k, IF EnvSet(k) THEN EnvVal(k) ELSE ClaimedDefault(k))

(***************************************************************************)
(* C18                                                                     *)
(***************************************************************************)
\* the value the file or the environment gives the key, the environment first
Supplied(c, k) ==
    IF EnvSet(k) THEN EnvVal(k) ELSE IF FileHas(c, k) THEN FileVal(c, k) ELSE Nil

Uncoercible(c, k) ==
    ~CliGiven(c, k) /\ Supplied(c, k) # Nil /\ ~Decode(Kind(k), Supplied(c, k)).ok

PastFile(c) ==
    /\ pc[c] = "done"
    /\ entry[c] \in {"Load", "LoadWithFlags"}
    /\ v[c].automaticEnv

\* the integer half of C18
IntTypeErrorsFail ==
    \A c \in Calls :
        (PastFile(c) /\ \E k \in Keys : Kind(k) = "int" /\ Uncoercible(c, k))
        => ret[c] = [cfg |-> <<>>, err |-> "failed to unmarshal config: decoding failed"]

\* C18: when the file or the environment gives a key a value that does not
\* coerce to the field's type, the call returns the unmarshal error and no
\* Config.
C18_TypeErrorsFail ==
    \A c \in Calls :
        (PastFile(c) /\ \E k \in Keys : Uncoercible(c, k))
        => ret[c] = [cfg |-> <<>>, err |-> "failed to unmarshal config: decoding failed"]

(***************************************************************************)
(* C19                                                                     *)
(***************************************************************************)
\* C19: two Load calls given the same path, with the files and the environment
\* unchanged, end alike: the same error, or Configs equal field by field,
\* whatever other Load calls the caller made in between.
C19_LoadIdempotent ==
    \A c, d \in Calls :
        (/\ entry[c] = "Load" /\ entry[d] = "Load"
         /\ pc[c] = "done" /\ pc[d] = "done"
         /\ arg[c] = arg[d])
        => ret[c] = ret[d]

\* Load("config.yaml") returned a Config, a later call was given "", and
\* Load("config.yaml") returned the same Config again
C19_Witness ==
    /\ entry["c1"] = "Load" /\ entry["c2"] = "Load"
    /\ pc["c1"] = "done" /\ pc["c2"] = "done"
    /\ arg["c1"] = "config.yaml" /\ arg["c2"] = "config.yaml"
    /\ "" \in history["c2"]
    /\ Returned("c1") /\ Returned("c2") /\ Result("c1") = Result("c2")

(***************************************************************************)
(* C20                                                                     *)
(***************************************************************************)
Malformed(f, raw) ==
    \/ FlagKind(f) = "int" /\ ~ParseInt(raw).ok
    \/ FlagKind(f) = "bool" /\ ~ParseBool(raw).ok

BadArgv ==
    \E f \in ArgNames : argv[f].given /\ (f \notin FlagNames \/ Malformed(f, argv[f].raw))

\* C20: with an undeclared flag or a malformed flag value on the command
\* line, LoadWithFlags ends the process in flag parsing: no file and no
\* variable has been read, nothing is returned, and the status is non-zero.
C20_BadArgvAborts ==
    \A c \in Calls : (entry[c] = "LoadWithFlags" /\ pc[c] # "call" /\ BadArgv) =>
        /\ pc[c] = "exit"
        /\ v[c] = New /\ cfg[c] = ZeroConfig /\ ret[c] = NoReturn
        /\ out[c].status = 2 /\ out[c].stdout = <<>>

\* the process ended in flag parsing on --imap-port=abc
C20_Witness ==
    \E c \in Calls :
        /\ entry[c] = "LoadWithFlags" /\ pc[c] = "exit"
        /\ argv["imap-port"].given /\ argv["imap-port"].raw = "abc"
        /\ v[c] = New /\ ret[c] = NoReturn /\ out[c].status = 2

\* the process ended in flag parsing on a flag that is not declared
UnknownFlagAborts ==
    \E c \in Calls :
        /\ entry[c] = "LoadWithFlags" /\ pc[c] = "exit"
        /\ argv["verbose"].given /\ \A f \in FlagNames : ~argv[f].given
        /\ v[c] = New /\ ret[c] = NoReturn /\ out[c].status = 2

(***************************************************************************)
(* C21                                                                     *)
(***************************************************************************)
\* a second call that the caller made after resetting pflag.CommandLine by hand
\* returns what the first call returned
SecondCallAfterResetSame ==
    (entry["c2"] = "LoadWithFlags" /\ pc["c2"] = "done") => ret["c2"] = ret["c1"]

\* C21: a second LoadWithFlags call in the same process, made after the first
\* has returned, runs the pipeline again and returns what the first returned
\* for the same file, environment and argv; it never ends in a panic.
C21_SecondCallSame ==
    /\ \A c \in Calls : pc[c] # "panic"
    /\ SecondCallAfterResetSame

(***************************************************************************)
(* C22                                                                     *)
(***************************************************************************)
\* the flag was supplied with the value it is declared with as its default
SuppliedDefault(c, k) == CliGiven(c, k) /\ CliVal(k) = FlagDefault(FlagOf(k))

\* for the keys that are not boolean a supplied flag wins, whatever its value
ExplicitFlagWinsNonBoolean ==
    \A c \in Calls : \A k \in Keys :
        (Returned(c) /\ CliGiven(c, k) /\ Kind(k) # "bool") => Result(c)[k] = CliVal(k)

\* --imap-port=0 replaced the file's port and --imap-host="" the file's host
ZeroFlagReplaced ==
    \E c \in Calls : \E k \in {"imap.port", "imap.host"} :
        /\ Returned(c) /\ SuppliedDefault(c, k) /\ FileHas(c, k)
        /\ FileVal(c, k) # CliVal(k) /\ Result(c)[k] = CliVal(k)

\* C22: a flag supplied on the command line decides its key in the returned
\* Config even when the supplied value equals the flag's declared default
\* (--imap-use-tls=true, --sync-on-startup=false, --imap-port=0, --imap-host="").
C22_ExplicitDefaultOverrides ==
    \A c \in Calls : \A k \in Keys :
        (Returned(c) /\ SuppliedDefault(c, k)) => Result(c)[k] = CliVal(k)

(***************************************************************************)
(* C23                                                                     *)
(***************************************************************************)
\* the variable of the key exists in the environment, whatever it holds
EnvPresent(k) == env[EnvVarName("DMARC", k)].set

\* Load has decoded the settings into cfg without a type error
Materialized(c) ==
    /\ entry[c] = "Load"
    /\ pc[c] = "validate" \/ (pc[c] = "done" /\ v[c].automaticEnv /\ Unmarshal(v[c], env).err = "")

\* the file's entry for the key is the zero value of its type, and no variable
\* of the key exists
FileZero(c, k) == FileHas(c, k) /\ FileVal(c, k) = ZeroValue(k) /\ ~EnvPresent(k)

\* the key's variable exists and is empty, over a file entry that is not
EnvEmpty(c, k) == EnvPresent(k) /\ EnvVal(k) = Str("") /\ FileHas(c, k) /\ FileVal(c, k) # Str("")

\* an empty or zero entry in the file counts as an entry: the field holds it,
\* not the default
EmptyFileEntryCounts ==
    \A c \in Calls : \A k \in Keys :
        (Materialized(c) /\ FileZero(c, k)) => cfg[c][k] = ZeroValue(k)

\* a file with database.path: "" and the three required keys makes Load fail
\* with "database.path is required"
EmptyDatabasePathFails ==
    \A c \in Calls :
        (/\ Materialized(c) /\ pc[c] = "done" /\ FileZero(c, "database.path")
         /\ \A k \in Required : cfg[c][k].s # "")
        => ret[c] = [cfg |-> <<>>, err |-> "config validation failed: database.path is required"]

\* Load failed on a file whose database.path is the empty string
EmptyDatabasePathFailed ==
    \E c \in Calls :
        /\ Materialized(c) /\ pc[c] = "done" /\ FileZero(c, "database.path")
        /\ ret[c].err = "config validation failed: database.path is required"

\* C23: a layer that specifies an empty or zero value for a key has an entry
\* for it, which replaces the lower layers' value: the zero entry of a file
\* replaces the default, and a variable set to the empty string replaces the
\* file's value.
C23_PresenceNotEmptiness ==
    \A c \in Calls : \A k \in Keys :
        Materialized(c) =>
            /\ FileZero(c, k) => cfg[c][k] = ZeroValue(k)
            /\ (EnvEmpty(c, k) /\ Kind(k) = "string") => cfg[c][k] = Str("")

(***************************************************************************)
(* C24                                                                     *)
(***************************************************************************)
MultiWord == {"imap.use_tls", "sync.on_startup"}

\* the registry consults DMARC_IMAP_USE_TLS for imap.use_tls and
\* DMARC_SYNC_ON_STARTUP for sync.on_startup, and resolves the key to the
\* variable's string
MultiWordVariableResolved ==
    /\ EnvVarName("DMARC", "imap.use_tls") = "DMARC_IMAP_USE_TLS"
    /\ EnvVarName("DMARC", "sync.on_startup") = "DMARC_SYNC_ON_STARTUP"
    /\ \A c \in Calls : \A k \in MultiWord :
           (v[c].automaticEnv /\ EnvSet(k) /\ ~CliGiven(c, k))
           => Get(v[c], env, k) = EnvVal(k)

\* C24: with DMARC_IMAP_USE_TLS or DMARC_SYNC_ON_STARTUP set to a boolean
\* string, the returned Config holds that boolean for imap.use_tls or
\* sync.on_startup.
C24_MultiWordEnvKeys ==
    \A c \in Calls : \A k \in MultiWord :
        (Returned(c) /\ EnvSet(k) /\ ~CliGiven(c, k) /\ ParseBool(EnvVal(k).s).ok)
        => Result(c)[k] = Bool(ParseBool(EnvVal(k).s).b)

(***************************************************************************)
(* C25                                                                     *)
(***************************************************************************)
\* whether a string is duration syntax (a number with a unit, as "15m"), on the
\* interval strings that occur
ParseableDuration(s) == s \in {"15m", "0"}

\* the default interval is duration syntax
DefaultIntervalParseable == ParseableDuration(ClaimedDefault("sync.interval").s)

\* C25: a Config is returned only if its sync.interval is parseable duration
\* syntax; resolution with a value such as "soon" fails.
C25_IntervalValidated ==
    \A c \in Calls : Returned(c) => ParseableDuration(Result(c)["sync.interval"].s)

(***************************************************************************)
(* C26                                                                     *)
(***************************************************************************)
\* what Load(a) returns when it runs alone on the files and the environment
LoadAlone(a) ==
    LET v0 == setDefaults(New)
    IN  IF a # "" /\ ReadErr(fs[a]) # ""
        THEN [cfg |-> <<>>, err |-> "failed to read config file: " \o ReadErr(fs[a])]
        ELSE LoadTail(AutomaticEnv(IF a = "" THEN v0
                                   ELSE ReadInConfig([v0 EXCEPT !.configFile = a], fs[a])),
                      env)

\* C26: of two Load calls on different files whose steps interleave in any
\* order, each returns what it returns when it runs alone.
C26_InterleavedLoadsIndependent ==
    \A c \in Calls : (entry[c] = "Load" /\ pc[c] = "done") => ret[c] = LoadAlone(arg[c])

\* the first call has returned a Config, the one it returns alone, while the
\* second call is in flight between its file read and its unmarshal, holding
\* another document in a registry of its own
C26_Witness ==
    /\ pc["c1"] = "done" /\ Returned("c1") /\ arg["c1"] = "config.yaml"
    /\ ret["c1"] = LoadAlone("config.yaml")
    /\ pc["c2"] \in {"env", "unmarshal"} /\ arg["c2"] = "other.yaml"
    /\ v["c2"].config # NoValues /\ v["c2"].config # v["c1"].config

(***************************************************************************)
(* C27                                                                     *)
(***************************************************************************)
LoadOver(c) == entry[c] = "Load" /\ pc[c] = "done"

\* C27: when Load is over it has returned either a Config and a nil error or
\* a nil Config and an error, never both and never neither; the Config of a
\* call that failed stays in the call's frame.
C27_ConfigXorError ==
    \A c \in Calls : LoadOver(c) =>
        \/ ret[c].cfg = <<>> /\ ret[c].err # ""
        \/ ret[c].cfg # <<>> /\ ret[c].err = "" /\ Len(ret[c].cfg) = 1

\* Load failed in Unmarshal with its local Config half filled, and returned
\* the error alone
C27_Witness ==
    \E c \in Calls :
        /\ LoadOver(c) /\ ret[c].err = "failed to unmarshal config: decoding failed"
        /\ cfg[c] # ZeroConfig /\ cfg[c]["imap.host"].s # ""
        /\ ret[c].cfg = <<>>

\* Load failed in validate, with its local Config filled, and returned the
\* error alone
ValidationFailureKeepsConfig ==
    \E c \in Calls :
        /\ LoadOver(c) /\ Materialized(c) /\ ValidationFailure(c)
        /\ cfg[c] # ZeroConfig /\ ret[c].cfg = <<>>

(***************************************************************************)
(* C28                                                                     *)
(***************************************************************************)
ReadFailure(c) == entry[c] = "Load" /\ arg[c] # "" /\ ReadErr(fs[arg[c]]) # ""

\* no layer gives the required key a non-empty value
RequiredMissing(c) ==
    \E k \in Required : ~CliGiven(c, k) /\ Supplied(c, k) \in {Nil, Str("")}

\* a file that cannot be read or parsed is reported whatever the later stages
\* would find
ReadFailureFirst ==
    \A c \in Calls : (LoadOver(c) /\ ReadFailure(c)) =>
        ret[c] = [cfg |-> <<>>, err |-> "failed to read config file: " \o ReadErr(fs[arg[c]])]

\* an error of v.Unmarshal is reported whatever validate would find, and
\* validate is reached only with the Config that v.Unmarshal filled in
\* without error
UnmarshalBeforeValidate ==
    \A c \in Calls :
        /\ (LoadOver(c) /\ v[c].automaticEnv /\ TypeFailure(c)) =>
               ret[c] = [cfg |-> <<>>, err |-> "failed to unmarshal config: decoding failed"]
        /\ (entry[c] = "Load" /\ pc[c] = "validate") =>
               ~TypeFailure(c) /\ cfg[c] = Unmarshal(v[c], env).cfg

\* Load reported the type error of an integer key although a required key
\* was missing as well
TypeErrorBeforeRequired ==
    \E c \in Calls :
        /\ LoadOver(c) /\ RequiredMissing(c)
        /\ \E k \in Keys : Kind(k) = "int" /\ Uncoercible(c, k)
        /\ ret[c].err = "failed to unmarshal config: decoding failed"

\* C28: Load reports a file read or parse failure before any type failure and
\* a type failure before any validation failure: with an uncoercible value and
\* a missing required field it fails with the type error, and validate runs
\* only on a Config that was materialized without error.
C28_StagesInOrder ==
    \A c \in Calls :
        /\ LoadOver(c) =>
            /\ ReadFailure(c) =>
                   ret[c].err = "failed to read config file: " \o ReadErr(fs[arg[c]])
            /\ (~ReadFailure(c) /\ RequiredMissing(c) /\ \E k \in Keys : Uncoercible(c, k)) =>
                   ret[c].err = "failed to unmarshal config: decoding failed"
        /\ (entry[c] = "Load" /\ pc[c] = "validate") =>
               ~TypeFailure(c) /\ cfg[c] = Unmarshal(v[c], env).cfg

(***************************************************************************)
(* C29                                                                     *)
(***************************************************************************)
\* the two Configs agree on the six fields validate reads
AgreeOnChecked(a, b) == \A k \in CheckedFields : a[k] = b[k]

\* validate returned for both Configs, and returned the same
SameOutcome ==
    (pc["c1"] = "done" /\ pc["c2"] = "done" /\ AgreeOnChecked(cfg["c1"], cfg["c2"]))
    => ret["c1"] = ret["c2"]

\* a call of validate leaves the Config it was given as it was
ValidateKeepsConfig ==
    \A c \in Calls : (pc[c] = "call" /\ pc'[c] = "done") => cfg'[c] = cfg[c]

\* C29: validate does not change the Config it is given, and two Configs that
\* agree on imap.host, imap.username, imap.password, database.path,
\* logging.level and logging.format get the same result whatever their other
\* seven fields hold.
C29_ValidateFrame == [][ValidateKeepsConfig]_vars /\ []SameOutcome

\* validate accepted a Config with imap.port -1, web.port 0 and an empty web
\* host as it accepted the one that agrees with it on the six fields
C29_Witness ==
    /\ pc["c1"] = "done" /\ pc["c2"] = "done"
    /\ AgreeOnChecked(cfg["c1"], cfg["c2"]) /\ cfg["c1"] # cfg["c2"]
    /\ cfg["c2"]["imap.port"].i < 0 /\ cfg["c2"]["web.port"].i = 0
    /\ cfg["c2"]["web.host"].s = ""
    /\ ret["c1"].err = "" /\ ret["c2"].err = ""

(***************************************************************************)
(* C30                                                                     *)
(***************************************************************************)
Masked(c) == entry[c] = "maskPassword" /\ pc[c] = "done"
Output(c) == out[c].stdout[1]

\* a password of one or two bytes is shown as "***", and the empty one as ""
ShortPasswordHidden ==
    \A c \in Calls : Masked(c) =>
        /\ Len(arg[c]) = 0 => Output(c) = <<>>
        /\ Len(arg[c]) \in {1, 2} => Output(c) = Stars

\* the output is decided by the first and the last byte: every password of
\* more than two bytes with the same two gets the same output, whatever its
\* length and the bytes in between
MaskHidesInterior ==
    \A c \in Calls : (Masked(c) /\ Len(arg[c]) > 2) =>
        \A q \in Passwords :
            (Len(q) > 2 /\ q[1] = arg[c][1] /\ q[Len(q)] = arg[c][Len(arg[c])])
            => maskPassword(q) = Output(c)

\* when the first and the last byte are ASCII, the output is these two bytes
\* around "***"
AsciiEndsShown ==
    \A c \in Calls :
        (Masked(c) /\ Len(arg[c]) > 2 /\ arg[c][1] < 128 /\ arg[c][Len(arg[c])] < 128)
        => Output(c) = <<arg[c][1]>> \o Stars \o <<arg[c][Len(arg[c])]>>

\* C30: maskPassword returns "" for the empty password, "***" for one of
\* length 1 or 2, and for a longer one its first byte, "***" and its last
\* byte, so that passwords of length greater than 2 with the same first and
\* last byte get the same output.
C30_MaskShape ==
    \A c \in Calls : Masked(c) =>
        /\ Len(arg[c]) = 0 => Output(c) = <<>>
        /\ Len(arg[c]) \in {1, 2} => Output(c) = Stars
        /\ Len(arg[c]) > 2 =>
            /\ Output(c) = <<arg[c][1]>> \o Stars \o <<arg[c][Len(arg[c])]>>
            /\ \A q \in Passwords :
                (Len(q) > 2 /\ q[1] = arg[c][1] /\ q[Len(q)] = arg[c][Len(arg[c])])
                => maskPassword(q) = Output(c)

====
